---- MODULE Spec2Model ----
(***************************************************************************)
(* ARDR (Adaptive Recurrent Dendritic Reasoning): the pipeline             *)
(* orchestrator runARDR and its stages, as a state machine.                *)
(*                                                                         *)
(* Encodings.                                                              *)
(*  - A JavaScript number is an exact rational n/d in lowest terms with    *)
(*    d > 0; NaN is 0/0.  A field of a parsed payload that should hold a   *)
(*    number is a tagged value: "undef" (absent), "num", or "str" (a       *)
(*    non-empty, non-numeric string: a field of the wrong type).           *)
(*  - A field that should hold an array is "undef", "arr" (with its        *)
(*    elements) or "bad" (a truthy value that is no array).                *)
(*  - A text is [s, len]: the text named s cut to its first len chars.     *)
(*  - Weak-point texts and branch names are sequences of characters, so    *)
(*    that String.includes is computed.                                    *)
(***************************************************************************)
EXTENDS Integers, Sequences, FiniteSets, TLC

VARIABLES
  pc,               \* position of runARDR
  openaiClient,     \* TRUE iff initializeOpenAI has run
  tier,             \* NexusTier of this run
  budget,           \* state.budget
  triPack,          \* state.triPack
  scratchpad,       \* state.scratchpad.entries
  branchOutputs,    \* state.branchOutputs
  verification,     \* state.verification
  recurrenceCount,  \* state.recurrenceCount
  shouldContinue,   \* local of runARDR
  finalResponse,    \* value returned by runARDR
  slots,            \* the promises of the fan-out in progress
  calls,            \* gateway calls issued so far, in order
  stages,           \* stages entered so far, in order
  session           \* the interactive session of main: its locals and the runs started

vars == <<pc, openaiClient, tier, budget, triPack, scratchpad, branchOutputs,
          verification, recurrenceCount, shouldContinue, finalResponse,
          slots, calls, stages, session>>

-----------------------------------------------------------------------------
(* Numbers *)

Abs(x) == IF x < 0 THEN -x ELSE x

RECURSIVE GCD(_, _)
GCD(a, b) == IF b = 0 THEN a ELSE GCD(b, a % b)

NaN == [t |-> "num", n |-> 0, d |-> 0]

\* The number n/d (d may be negative or zero: x/0 is modelled only for 0/0).
Num(n, d) ==
  IF d = 0 THEN NaN
  ELSE LET g == GCD(Abs(n), Abs(d))
           s == IF d < 0 THEN -1 ELSE 1
       IN  [t |-> "num", n |-> s * (n \div g), d |-> s * (d \div g)]

Whole(k) == Num(k, 1)

Undef == [t |-> "undef", n |-> 0, d |-> 0]

\* A non-empty string that is not the text of a number, e.g. "high".
StrVal == [t |-> "str", n |-> 0, d |-> 0]

IsNaN(x) == x.t = "num" /\ x.d = 0

\* ToNumber: a non-numeric string and undefined convert to NaN.
ToNumber(x) == IF x.t = "num" THEN x ELSE NaN

\* a + b: with a string operand + concatenates, and the result is a string.
Plus(a, b) ==
  IF a.t = "str" \/ b.t = "str" THEN StrVal
  ELSE LET x == ToNumber(a)
           y == ToNumber(b)
       IN  IF IsNaN(x) \/ IsNaN(y) THEN NaN
           ELSE Num(x.n * y.d + y.n * x.d, x.d * y.d)

\* a - b
Minus(a, b) ==
  LET x == ToNumber(a)
      y == ToNumber(b)
  IN  IF IsNaN(x) \/ IsNaN(y) THEN NaN
      ELSE Num(x.n * y.d - y.n * x.d, x.d * y.d)

\* a / k for an integer k >= 0 (0/0 is NaN).
DivInt(a, k) ==
  LET x == ToNumber(a)
  IN  IF IsNaN(x) THEN NaN
      ELSE IF k = 0 THEN NaN
      ELSE Num(x.n, x.d * k)

\* a < b: FALSE when an operand converts to NaN.
Lt(a, b) ==
  LET x == ToNumber(a)
      y == ToNumber(b)
  IN  ~IsNaN(x) /\ ~IsNaN(y) /\ x.n * y.d < y.n * x.d

\* a >= b: FALSE when an operand converts to NaN.
Ge(a, b) ==
  LET x == ToNumber(a)
      y == ToNumber(b)
  IN  ~IsNaN(x) /\ ~IsNaN(y) /\ x.n * y.d >= y.n * x.d

Le(a, b) == Ge(b, a)

\* Math.min(a, b): NaN when an operand converts to NaN.
MathMin(a, b) ==
  LET x == ToNumber(a)
      y == ToNumber(b)
  IN  IF IsNaN(x) \/ IsNaN(y) THEN NaN
      ELSE IF x.n * y.d <= y.n * x.d THEN x ELSE y

\* Truthiness of a number-typed field: undefined, 0 and NaN are falsy.
TruthyNum(x) == x.t = "str" \/ (x.t = "num" /\ x.d # 0 /\ x.n # 0)

\* x || dflt
OrNum(x, dflt) == IF TruthyNum(x) THEN x ELSE dflt

\* x.toFixed exists only on numbers.
HasToFixed(x) == x.t = "num"

-----------------------------------------------------------------------------
(* Texts and arrays *)

Min(a, b) == IF a <= b THEN a ELSE b

Text(s, len) == [s |-> s, len |-> len]

EmptyText == Text("", 0)

\* The text whole, whatever k is.
SliceNone(txt, k) == txt

\* text.slice(0, k)
Slice(txt, k) == [txt EXCEPT !.len = Min(txt.len, k)]

NoArr == [t |-> "undef", a |-> <<>>]
Arr(a) == [t |-> "arr", a |-> a]
BadArr == [t |-> "bad", a |-> <<>>]

\* x || dflt for an array-typed field: every array is truthy, [] included.
OrArr(x, dflt) == IF x.t = "undef" THEN dflt ELSE x

\* x.forEach / x.map / x.some / x.join exist only on arrays.
IsArray(x) == x.t = "arr"

NoText == [t |-> "undef", s |-> EmptyText]
Str(txt) == [t |-> "str", s |-> txt]

\* x || dflt for a string-typed field: undefined and "" are falsy.
OrText(x, dflt) == IF x.t = "str" /\ x.s.len > 0 THEN x.s ELSE dflt

-----------------------------------------------------------------------------
(* Configuration *)

Tiers == {"low", "high", "max"}

\* MODELS
ModelProfiler == "profiler"
ModelCheap == "cheap"
ModelCode == "code"
ModelUndefined == "undefined"
ChiefModel(t) == IF t = "max" THEN "chiefMax" ELSE IF t = "high" THEN "chiefHigh" ELSE "chiefLow"

\* tier === "max" ? 3 : tier === "high" ? 2 : 1
TierCeiling(t) == IF t = "max" THEN 3 ELSE IF t = "high" THEN 2 ELSE 1

\* The keys of the object literal branchConfigs.
Registry == {"logic", "pattern", "world", "code", "adversarial"}

\* Keys every object literal inherits from Object.prototype (those the inputs use).
ObjectPrototypeKeys == {"constructor"}

BranchModel(name) ==
  IF name \in {"logic", "pattern", "adversarial"} THEN ModelCheap
  ELSE IF name = "world" THEN "world"
  ELSE IF name = "code" THEN ModelCode
  ELSE ModelUndefined

\* branchConfigs[branchName] is truthy: an own key, or an inherited property.
HasConfig(name) == name \in Registry \/ name \in ObjectPrototypeKeys

\* The characters of a branch name, for String.includes.
NameChars(name) ==
  CASE name = "logic" -> <<"l", "o", "g", "i", "c">>
    [] name = "pattern" -> <<"p", "a", "t", "t", "e", "r", "n">>
    [] name = "world" -> <<"w", "o", "r", "l", "d">>
    [] name = "code" -> <<"c", "o", "d", "e">>
    [] name = "adversarial" -> <<"a", "d", "v", "e", "r", "s", "a", "r", "i", "a", "l">>
    [] name = "constructor" -> <<"c", "o", "n", "s", "t", "r", "u", "c", "t", "o", "r">>
    [] OTHER -> <<"f", "o", "o">>

\* wp.includes(name)
Includes(wp, name) ==
  LET nm == NameChars(name)
  IN  \E i \in 1..(Len(wp) + 1) :
        /\ i + Len(nm) - 1 <= Len(wp)
        /\ SubSeq(wp, i, i + Len(nm) - 1) = nm

-----------------------------------------------------------------------------
(* Gateway responses.  A response is its text and what parseJsonFromResponse *)
(* makes of it: parsed = FALSE (no JSON object found or JSON.parse threw) or *)
(* an object with the listed fields.                                         *)

\* "[Error calling <model>: <message>]"
ErrorMarker == Text("[Error]", 40)

\* Profiler responses.
PResp(tt, rs, ad, rb) ==
  [parsed |-> TRUE, taskType |-> tt, riskScore |-> rs, allowedDepth |-> ad,
   requiredBranches |-> rb]

PUnparsed == [parsed |-> FALSE, taskType |-> "", riskScore |-> Undef,
              allowedDepth |-> Undef, requiredBranches |-> NoArr]

\* The allowedDepth values the profiler's model proposes.
ProposedDepths ==
  {Undef, Whole(0), Whole(-1), Whole(1), Whole(2), Whole(5), Num(1, 2), StrVal}

\* requiredBranches naming at most one branch that has a config.
NarrowRequests ==
  {Arr(<<"logic">>), Arr(<<"foo">>), Arr(<<"foo", "code">>), Arr(<<"constructor">>)}

\* requiredBranches naming two branches, and its absence (then ["logic", "world"]).
WideRequests == {NoArr, Arr(<<"code", "logic">>), Arr(<<"logic", "logic">>)}

\* The profiler responses explored at tier t.  Every tier sees every proposed depth
\* and the fast-path and malformed responses; the responses that start two or three
\* branches are explored where the depth ceiling is low.
ProfilerResponsesAt(t) ==
  {PResp("code", Undef, ad, Arr(<<"code">>)) : ad \in ProposedDepths}
  \cup {PResp("", Num(3, 10), Undef, rb) : rb \in NarrowRequests}
  \cup {PResp("conversation", Undef, Undef, rb) : rb \in {Arr(<<>>), Arr(<<"logic">>)}}
  \cup {PResp("writing", Undef, Whole(3), Arr(<<>>))}
  \cup {PResp("math", StrVal, Whole(1), Arr(<<"logic">>)),
        PResp("math", Undef, Whole(1), BadArr)}
  \cup (IF t = "low"
        THEN {PUnparsed} \cup {PResp("", Num(3, 10), Undef, rb) : rb \in WideRequests}
        ELSE IF t = "high"
        THEN {PResp("code", Undef, ad, Arr(<<"code", "logic">>)) :
                ad \in {Undef, Whole(-1)}}
        ELSE {})

\* Texts a decomposition call returns.
ViewResponses == {Text("view", 300)}

\* Texts a streaming call for the final answer returns.
TextResponses == {Text("answer", 300), ErrorMarker}

\* The largest number of hypotheses a branch payload of the inputs carries.
MaxHyps == 2

\* k distinct hypothesis texts.
HypList(k) == [i \in 1..k |-> Text("hypothesis", 20 * i)]

\* Branch responses (Stage B and refinements).
BResp(h, a, n, c, conf) ==
  [parsed |-> TRUE, text |-> Text("json", 200), hypotheses |-> h, artifacts |-> a,
   notes |-> n, contradictions |-> c, confidence |-> conf]

BUnparsed(txt) ==
  [parsed |-> FALSE, text |-> txt, hypotheses |-> NoArr, artifacts |-> NoArr,
   notes |-> NoText, contradictions |-> NoArr, confidence |-> Undef]

BRaw == BUnparsed(Text("I think X happens because Y", 700))
BError == BUnparsed(ErrorMarker)
BFull ==
  BResp(Arr(HypList(MaxHyps)), Arr(<<Text("artifact", 30)>>), Str(Text("notes", 50)),
        Arr(<<Text("contradiction", 30)>>), Num(9, 10))
BEmpty == BResp(NoArr, NoArr, NoText, NoArr, Undef)
BLow == BResp(Arr(HypList(1)), NoArr, Str(Text("notes", 50)), NoArr, Num(3, 10))
BOver == BResp(Arr(HypList(1)), NoArr, NoText, NoArr, Num(3, 2))
BZero == BResp(Arr(HypList(1)), Arr(<<>>), Str(Text("renotes", 60)), Arr(<<>>), Whole(0))
BStrConf == BResp(Arr(HypList(1)), NoArr, NoText, NoArr, StrVal)
BBadHyps == BResp(BadArr, NoArr, Str(Text("notes", 50)), NoArr, Num(9, 10))

BranchResponses == {BRaw, BFull, BLow, BOver, BStrConf, BBadHyps}

RefineResponses == {BError, BFull, BEmpty, BZero, BBadHyps}

\* Counterexample-generator responses.
CEResp(ce) == [parsed |-> TRUE, counterexamples |-> ce]
CEUnparsed == [parsed |-> FALSE, counterexamples |-> NoArr]
CounterexampleResponses == {CEResp(Arr(<<Text("counterexample", 30)>>))}

\* Consistency-scorer responses.  branch_scores is given per name, Undef where
\* the object has no such key; proven_invariants is not modelled.
ScoreNames == Registry \cup ObjectPrototypeKeys \cup {"foo"}
NoScores == [n \in ScoreNames |-> Undef]
Scores(name, v) == [NoScores EXCEPT ![name] = v]

CSResp(bs, wp, u) ==
  [parsed |-> TRUE, branch_scores |-> bs, weak_points |-> wp, uncertainty |-> u]
CSUnparsed ==
  [parsed |-> FALSE, branch_scores |-> NoScores, weak_points |-> NoArr,
   uncertainty |-> Undef]

\* "encoded" contains "code"; "vague" names no branch.
WpEncoded == <<"e", "n", "c", "o", "d", "e", "d">>
WpVague == <<"v", "a", "g", "u", "e">>

ConsistencyResponses ==
  {CSUnparsed,
   CSResp([NoScores EXCEPT !["logic"] = Num(4, 5), !["code"] = Num(9, 10)],
          Arr(<<>>), Num(1, 5)),
   CSResp(Scores("code", Num(2, 5)), NoArr, Num(7, 10)),
   CSResp(NoScores, Arr(<<WpEncoded>>), Num(3, 10)),
   CSResp(Scores("logic", Whole(0)), Arr(<<WpVague>>), Whole(0)),
   CSResp(NoScores, NoArr, Whole(3)),
   CSResp(NoScores, BadArr, Num(7, 10))}

\* Instruction-generator responses: what instructions[name] is for every name.
InstructionResponses == {"absent", "string", "nonstring"}

-----------------------------------------------------------------------------
(* Sequences *)

Range(seq) == {seq[i] : i \in DOMAIN seq}

-----------------------------------------------------------------------------
(* Stage 0: stage0_TaskProfiler *)

NoBudget ==
  [taskType |-> "", riskScore |-> Undef, allowedDepth |-> Undef,
   branches |-> NoArr, chiefModel |-> ""]

\* parsed.allowedDepth || 2 without the cap.
ParsedDepthUncapped(proposed, t) == OrNum(proposed, Whole(2))

\* parsed.allowedDepth || 2, capped by the tier's ceiling.
ParsedDepth(proposed, t) == MathMin(OrNum(proposed, Whole(2)), Whole(TierCeiling(t)))

\* The budget built from the profiler's response.
Stage0Budget(r, t) ==
  IF r.parsed
  THEN [taskType |-> IF r.taskType = "" THEN "reasoning" ELSE r.taskType,
        riskScore |-> OrNum(r.riskScore, Num(1, 2)),
        allowedDepth |-> ParsedDepth(r.allowedDepth, t),
        branches |-> OrArr(r.requiredBranches, Arr(<<"logic", "world">>)),
        chiefModel |-> ChiefModel(t)]
  ELSE [taskType |-> "reasoning",
        riskScore |-> Num(1, 2),
        allowedDepth |-> Whole(TierCeiling(t)),
        branches |-> Arr(<<"logic", "world", "code">>),
        chiefModel |-> ChiefModel(t)]

\* The two log lines after the budget is built: riskScore.toFixed and branches.join.
Stage0Throws(b) == ~HasToFixed(b.riskScore) \/ ~IsArray(b.branches)

\* budget.branches.length === 0 (a string that is no array has a length > 0).
NoBranches(b) == b.branches.t = "arr" /\ Len(b.branches.a) = 0

\* FastPath without the test of the branch list.
FastPathConversationOnly(b) == b.taskType = "conversation"

\* state.budget.taskType === "conversation" || state.budget.branches.length === 0
FastPath(b) == b.taskType = "conversation" \/ NoBranches(b)

-----------------------------------------------------------------------------
(* Stage B: stageB_DendriticBranches *)

\* The BranchOutput built from a branch's response.
BranchOutputOf(name, r) ==
  IF r.parsed
  THEN [branchName |-> name,
        hypotheses |-> OrArr(r.hypotheses, Arr(<<>>)),
        artifacts |-> OrArr(r.artifacts, Arr(<<>>)),
        notes |-> OrText(r.notes, EmptyText),
        contradictions |-> OrArr(r.contradictions, Arr(<<>>)),
        confidence |-> OrNum(r.confidence, Num(1, 2))]
  ELSE [branchName |-> name,
        hypotheses |-> Arr(<<Slice(r.text, 500)>>),
        artifacts |-> Arr(<<>>),
        notes |-> r.text,
        contradictions |-> Arr(<<>>),
        confidence |-> Num(1, 2)]

Entry(name, txt, type) == [branch |-> name, content |-> txt, type |-> type]

\* The note entry pushed for an output.
NoteEntry(out) == <<Entry(out.branchName, out.notes, "note")>>

\* The hypothesis entries pushed last hypothesis first.
HypothesisEntriesReversed(out) ==
  [i \in 1..Len(out.hypotheses.a) |->
     Entry(out.branchName, out.hypotheses.a[Len(out.hypotheses.a) + 1 - i],
           "hypothesis")]

\* The hypothesis entries pushed for an output (hypotheses.forEach).
HypothesisEntries(out) ==
  [i \in 1..Len(out.hypotheses.a) |->
     Entry(out.branchName, out.hypotheses.a[i], "hypothesis")]

\* Push with the new entries put in front of the log.
PushFront(entries, new) == new \o entries

\* scratchpad.entries.push, once per new entry.
Push(entries, new) == entries \o new

-----------------------------------------------------------------------------
(* Stage C: stageC_Verification *)

NoVerification ==
  [branchScores |-> NoScores, counterexamples |-> NoArr, weakPoints |-> NoArr,
   uncertaintyScore |-> Undef]

\* branchOutputs.reduce((sum, b) => sum + b.confidence, 0)
RECURSIVE SumConfidence(_)
SumConfidence(outs) ==
  IF outs = <<>> THEN Whole(0)
  ELSE Plus(SumConfidence(SubSeq(outs, 1, Len(outs) - 1)), outs[Len(outs)].confidence)

\* avgConfidence
AvgConfidence(outs) == DivInt(SumConfidence(outs), Len(outs))

\* uncertaintyScore = (uncertaintyScore + (1 - avgConfidence)) / 2
Blend(reported, outs) ==
  DivInt(Plus(reported, Minus(Whole(1), AvgConfidence(outs))), 2)

\* The VerificationResult built from the two responses.
VerificationOf(ce, cs, outs) ==
  [branchScores |-> IF cs.parsed THEN cs.branch_scores ELSE NoScores,
   counterexamples |-> IF ce.parsed THEN OrArr(ce.counterexamples, Arr(<<>>)) ELSE Arr(<<>>),
   weakPoints |-> IF cs.parsed THEN OrArr(cs.weak_points, Arr(<<>>)) ELSE Arr(<<>>),
   uncertaintyScore |->
     Blend(IF cs.parsed THEN OrNum(cs.uncertainty, Num(1, 2)) ELSE Num(1, 2), outs)]

\* Building the verification context: b.hypotheses.map on every output.
StageCThrows(outs) == \E i \in DOMAIN outs : ~IsArray(outs[i].hypotheses)

-----------------------------------------------------------------------------
(* Stage D: stageD_AdaptiveRecurrence *)

UNCERTAINTY_THRESHOLD == Num(11, 20)
MIN_BRANCH_SCORE == Num(1, 2)

\* weakPoints.length (a string that is no array has a length > 0).
WeakPointsEmpty(v) == v.weakPoints.t = "arr" /\ Len(v.weakPoints.a) = 0

\* An early return that asks for an uncertainty below MIN_BRANCH_SCORE.
BelowMinScore(v) == Lt(v.uncertaintyScore, MIN_BRANCH_SCORE) /\ WeakPointsEmpty(v)

\* The first early return: uncertainty below the threshold and no weak points.
BelowThreshold(v) == Lt(v.uncertaintyScore, UNCERTAINTY_THRESHOLD) /\ WeakPointsEmpty(v)

\* The second early return: recurrenceCount >= budget.allowedDepth.
DepthReached(rc, b) == Ge(Whole(rc), b.allowedDepth)

\* verification.branchScores.get(b.branchName) || b.confidence
ScoreOf(b, v) == OrNum(v.branchScores[b.branchName], b.confidence)

WeakByScore(b, v) == Lt(ScoreOf(b, v), MIN_BRANCH_SCORE)

\* verification.weakPoints.some(wp => wp.includes(b.branchName))
WeakByText(b, v) ==
  \E i \in 1..Len(v.weakPoints.a) : Includes(v.weakPoints.a[i], b.branchName)

IsWeak(b, v) == WeakByScore(b, v) \/ WeakByText(b, v)

\* The filter calls weakPoints.some only for a branch whose score is not low.
FilterThrows(outs, v) ==
  \E i \in DOMAIN outs : ~WeakByScore(outs[i], v) /\ ~IsArray(v.weakPoints)

\* A filter that keeps every branch.
AllIndices(outs, v) == DOMAIN outs

\* The indices of the weak branches.
WeakIndices(outs, v) == {i \in DOMAIN outs : IsWeak(outs[i], v)}

\* Building instructionPrompt: weakPoints.join and counterexamples.slice(0, 3).join.
InstructionPromptThrows(v) == ~IsArray(v.weakPoints) \/ ~IsArray(v.counterexamples)

RefineModel(name) == IF name = "code" THEN ModelCode ELSE ModelCheap

\* RefinedOutput without the boost when the refinement does not parse.
RefinedOutputNoBoost(branch, r) ==
  IF r.parsed
  THEN [branchName |-> branch.branchName,
        hypotheses |-> OrArr(r.hypotheses, branch.hypotheses),
        artifacts |-> OrArr(r.artifacts, branch.artifacts),
        notes |-> OrText(r.notes, r.text),
        contradictions |-> OrArr(r.contradictions, Arr(<<>>)),
        confidence |->
          MathMin(Plus(OrNum(r.confidence, branch.confidence), Num(1, 10)), Num(19, 20))]
  ELSE branch

\* The output that replaces a weak branch's, from its refinement response.
RefinedOutput(branch, r) ==
  IF r.parsed
  THEN [branchName |-> branch.branchName,
        hypotheses |-> OrArr(r.hypotheses, branch.hypotheses),
        artifacts |-> OrArr(r.artifacts, branch.artifacts),
        notes |-> OrText(r.notes, r.text),
        contradictions |-> OrArr(r.contradictions, Arr(<<>>)),
        confidence |->
          MathMin(Plus(OrNum(r.confidence, branch.confidence), Num(1, 10)), Num(19, 20))]
  ELSE [branch EXCEPT !.confidence = Plus(branch.confidence, Num(1, 10))]

-----------------------------------------------------------------------------
(* Final stage: stageFinal_GrandSynthesis *)

\* Building the evidence ledger: confidence.toFixed, hypotheses.slice(0, 3).join and
\* artifacts.slice(0, 2).join on every output, and weakPoints.join.
FinalThrows(outs, v) ==
  \/ \E i \in DOMAIN outs :
       \/ ~HasToFixed(outs[i].confidence)
       \/ ~IsArray(outs[i].hypotheses)
       \/ ~IsArray(outs[i].artifacts)
  \/ ~IsArray(v.weakPoints)

-----------------------------------------------------------------------------
(* The gateway: callModel and callModelStreaming *)

Call(stage, model, streaming, name) ==
  [stage |-> stage, model |-> model, streaming |-> streaming, name |-> name]

\* A promise of a fan-out: "wait" (its call is outstanding), "done" (resolved with
\* val), "null" (resolved with null) or "rejected".
Slot(kind, st, name, val) == [kind |-> kind, st |-> st, name |-> name, val |-> val]

\* A Promise.all that resolves with the first settled promise.
AnySettled == \E i \in DOMAIN slots : slots[i].st # "wait"

AllSettled == \A i \in DOMAIN slots : slots[i].st # "wait"

\* No interactive session: runARDR is called on its own.
NoSession == [currentTier |-> <<>>, currentDebug |-> FALSE, isClosed |-> FALSE,
              runs |-> <<>>, input |-> <<>>, read |-> 0]

-----------------------------------------------------------------------------
(* runARDR *)

Init ==
  /\ pc = "start"
  /\ openaiClient \in BOOLEAN
  /\ tier \in Tiers
  /\ budget = NoBudget
  /\ triPack = <<>>
  /\ scratchpad = <<>>
  /\ branchOutputs = <<>>
  /\ verification = NoVerification
  /\ recurrenceCount = 0
  /\ shouldContinue = TRUE
  /\ finalResponse = EmptyText
  /\ slots = <<>>
  /\ calls = <<>>
  /\ stages = <<>>
  /\ session = NoSession

\* Start with a getOpenAI that does not check the client.
StartUnchecked ==
  /\ pc = "start"
  /\ stages' = Append(stages, "Profiler")
  /\ calls' = Append(calls, Call("Profiler", ModelProfiler, FALSE, ""))
  /\ pc' = "stage0"
  /\ UNCHANGED <<openaiClient, tier, budget, triPack, scratchpad, branchOutputs,
                 verification, recurrenceCount, shouldContinue, finalResponse, slots>>
  /\ UNCHANGED session

\* runARDR calls stage0_TaskProfiler, whose callModel calls getOpenAI.
Start ==
  /\ pc = "start"
  /\ stages' = Append(stages, "Profiler")
  /\ IF openaiClient
     THEN /\ calls' = Append(calls, Call("Profiler", ModelProfiler, FALSE, ""))
          /\ pc' = "stage0"
     ELSE /\ calls' = calls
          /\ pc' = "threw"
  /\ UNCHANGED <<openaiClient, tier, budget, triPack, scratchpad, branchOutputs,
                 verification, recurrenceCount, shouldContinue, finalResponse, slots>>
  /\ UNCHANGED session

\* The three calls of stageA_StructuredDecomposition.
DecomposerCalls == [i \in 1..3 |-> Call("Decomposer", ModelCheap, FALSE, "")]

\* The profiler's call returns: the budget, then the fast path or Stage A's calls.
Stage0Return ==
  /\ pc = "stage0"
  /\ \E r \in ProfilerResponsesAt(tier) :
       LET b == Stage0Budget(r, tier) IN
       IF Stage0Throws(b)
       THEN /\ pc' = "threw"
            /\ UNCHANGED <<budget, calls, stages, slots>>
       ELSE /\ budget' = b
            /\ IF FastPath(b)
               THEN /\ calls' = Append(calls, Call("Fast", ChiefModel(tier), TRUE, ""))
                    /\ pc' = "fast"
                    /\ UNCHANGED <<stages, slots>>
               ELSE /\ stages' = Append(stages, "Decomposer")
                    /\ calls' = calls \o DecomposerCalls
                    /\ slots' = [i \in 1..3 |-> Slot("A", "wait", "", EmptyText)]
                    /\ pc' = "stageA"
  /\ UNCHANGED <<openaiClient, tier, triPack, scratchpad, branchOutputs, verification,
                 recurrenceCount, shouldContinue, finalResponse>>
  /\ UNCHANGED session

\* handleConversation's streaming call returns.
FastReturn ==
  /\ pc = "fast"
  /\ \E txt \in TextResponses : finalResponse' = txt
  /\ pc' = "done"
  /\ UNCHANGED <<openaiClient, tier, budget, triPack, scratchpad, branchOutputs,
                 verification, recurrenceCount, shouldContinue, slots, calls, stages>>
  /\ UNCHANGED session

\* One of the three decomposition calls returns.
StageAReturn(i) ==
  /\ pc = "stageA"
  /\ slots[i].st = "wait"
  /\ \E txt \in ViewResponses : slots' = [slots EXCEPT ![i] = Slot("A", "done", "", txt)]
  /\ UNCHANGED <<pc, openaiClient, tier, budget, triPack, scratchpad, branchOutputs,
                 verification, recurrenceCount, shouldContinue, finalResponse, calls,
                 stages>>
  /\ UNCHANGED session

\* budget.branches.map: a call for every name with a config, null for the others.
BranchSlots(req) ==
  [i \in 1..Len(req) |->
     IF HasConfig(req[i]) THEN Slot("B", "wait", req[i], <<>>)
     ELSE Slot("B", "null", req[i], <<>>)]

BranchCalls(req) ==
  LET known == SelectSeq(req, HasConfig)
  IN  [i \in 1..Len(known) |-> Call("Branches", BranchModel(known[i]), FALSE, known[i])]

\* Promise.all of Stage A resolves: the tri-pack, then Stage B's calls.
StageAJoin ==
  /\ pc = "stageA"
  /\ AllSettled
  /\ triPack' = [symbolic |-> slots[1].val, invariants |-> slots[2].val,
                 formal |-> slots[3].val]
  /\ stages' = Append(stages, "Branches")
  /\ slots' = BranchSlots(budget.branches.a)
  /\ calls' = calls \o BranchCalls(budget.branches.a)
  /\ pc' = "stageB"
  /\ UNCHANGED <<openaiClient, tier, budget, scratchpad, branchOutputs, verification,
                 recurrenceCount, shouldContinue, finalResponse>>
  /\ UNCHANGED session

\* A branch's call returns: its output, its scratchpad entries, its log line.  A
\* rejected branch promise rejects Promise.all at once; the other branches'
\* continuations still run when their calls return.
BranchReturn(i) ==
  /\ pc \in {"stageB", "threw"}
  /\ slots[i].kind = "B"
  /\ slots[i].st = "wait"
  /\ \E r \in BranchResponses :
       LET out == BranchOutputOf(slots[i].name, r) IN
       IF ~IsArray(out.hypotheses)
       THEN /\ scratchpad' = Push(scratchpad, NoteEntry(out))
            /\ slots' = [slots EXCEPT ![i].st = "rejected"]
            /\ pc' = "threw"
       ELSE /\ scratchpad' = Push(Push(scratchpad, NoteEntry(out)), HypothesisEntries(out))
            /\ IF HasToFixed(out.confidence)
               THEN /\ slots' = [slots EXCEPT ![i] = Slot("B", "done", out.branchName, out)]
                    /\ pc' = pc
               ELSE /\ slots' = [slots EXCEPT ![i].st = "rejected"]
                    /\ pc' = "threw"
  /\ UNCHANGED <<openaiClient, tier, budget, triPack, branchOutputs, verification,
                 recurrenceCount, shouldContinue, finalResponse, calls, stages>>
  /\ UNCHANGED session

\* The resolved outputs, last promise first.
NonNullReversed(ss) ==
  LET kept == SelectSeq(ss, LAMBDA x : x.st = "done")
  IN  [i \in 1..Len(kept) |-> kept[Len(kept) + 1 - i].val]

\* results.filter(r => r !== null)
NonNull(ss) ==
  LET kept == SelectSeq(ss, LAMBDA x : x.st = "done")
  IN  [i \in 1..Len(kept) |-> kept[i].val]

VerificationCalls == [i \in 1..2 |-> Call("Verification", ModelCheap, FALSE, "")]

\* stageC_Verification up to its Promise.all, on the outputs outs.
EnterStageC(outs) ==
  /\ stages' = Append(stages, "Verification")
  /\ IF StageCThrows(outs)
     THEN /\ pc' = "threw"
          /\ slots' = <<>>
          /\ calls' = calls
     ELSE /\ pc' = "stageC"
          /\ slots' = [i \in 1..2 |-> Slot("C", "wait", "", <<>>)]
          /\ calls' = calls \o VerificationCalls

\* Promise.all of Stage B resolves: the outputs, then Stage C's calls.
StageBJoin ==
  /\ pc = "stageB"
  /\ AllSettled
  /\ branchOutputs' = NonNull(slots)
  /\ EnterStageC(NonNull(slots))
  /\ UNCHANGED <<openaiClient, tier, budget, triPack, scratchpad, verification,
                 recurrenceCount, shouldContinue, finalResponse>>
  /\ UNCHANGED session

\* One of the two verification calls returns (1: counterexamples, 2: consistency).
VerifyReturn(i) ==
  /\ pc = "stageC"
  /\ slots[i].st = "wait"
  /\ \E r \in (IF i = 1 THEN CounterexampleResponses ELSE ConsistencyResponses) :
       slots' = [slots EXCEPT ![i] = Slot("C", "done", "", r)]
  /\ UNCHANGED <<pc, openaiClient, tier, budget, triPack, scratchpad, branchOutputs,
                 verification, recurrenceCount, shouldContinue, finalResponse, calls,
                 stages>>
  /\ UNCHANGED session

\* Promise.all of Stage C resolves: the verification result.
StageCJoin ==
  /\ pc = "stageC"
  /\ AllSettled
  /\ verification' = VerificationOf(slots[1].val, slots[2].val, branchOutputs)
  /\ slots' = <<>>
  /\ pc' = "loop"
  /\ UNCHANGED <<openaiClient, tier, budget, triPack, scratchpad, branchOutputs,
                 recurrenceCount, shouldContinue, finalResponse, calls, stages>>
  /\ UNCHANGED session

\* The loop condition with <= for <.
LoopConditionInclusive ==
  shouldContinue /\ Le(Whole(recurrenceCount), budget.allowedDepth)

\* while (shouldContinue && state.recurrenceCount < state.budget.allowedDepth)
LoopCondition == shouldContinue /\ Lt(Whole(recurrenceCount), budget.allowedDepth)

\* The loop is entered: stageD_AdaptiveRecurrence up to its first await, or to the
\* return of shouldRecur = false.
LoopIterate ==
  /\ pc = "loop"
  /\ LoopCondition
  /\ stages' = Append(stages, "Recurrence")
  /\ IF BelowThreshold(verification) \/ DepthReached(recurrenceCount, budget)
     THEN /\ shouldContinue' = FALSE
          /\ UNCHANGED <<pc, calls>>
     ELSE IF FilterThrows(branchOutputs, verification)
     THEN /\ pc' = "threw"
          /\ UNCHANGED <<shouldContinue, calls>>
     ELSE IF WeakIndices(branchOutputs, verification) = {}
     THEN /\ shouldContinue' = FALSE
          /\ UNCHANGED <<pc, calls>>
     ELSE IF InstructionPromptThrows(verification)
     THEN /\ pc' = "threw"
          /\ UNCHANGED <<shouldContinue, calls>>
     ELSE /\ calls' = Append(calls, Call("Recurrence", ModelCheap, FALSE, ""))
          /\ pc' = "stageD_instr"
          /\ UNCHANGED shouldContinue
  /\ UNCHANGED <<openaiClient, tier, budget, triPack, scratchpad, branchOutputs,
                 verification, recurrenceCount, finalResponse, slots>>
  /\ UNCHANGED session

\* The loop is left: stageFinal_GrandSynthesis up to its streaming call.
LoopExit ==
  /\ pc = "loop"
  /\ ~LoopCondition
  /\ stages' = Append(stages, "Synthesizer")
  /\ IF FinalThrows(branchOutputs, verification)
     THEN /\ pc' = "threw"
          /\ calls' = calls
     ELSE /\ pc' = "final"
          /\ calls' = Append(calls, Call("Synthesizer", budget.chiefModel, TRUE, ""))
  /\ UNCHANGED <<openaiClient, tier, budget, triPack, scratchpad, branchOutputs,
                 verification, recurrenceCount, shouldContinue, finalResponse, slots>>
  /\ UNCHANGED session

\* weakBranches.find(wb => wb.branchName === branch.branchName): the outputs that are
\* re-invoked are those that carry the name of a weak branch.
Reinvoked(outs, v) ==
  {i \in DOMAIN outs :
     \E j \in WeakIndices(outs, v) : outs[j].branchName = outs[i].branchName}

RefineCalls(outs, v) ==
  LET weak == SelectSeq([i \in DOMAIN outs |-> i], LAMBDA i : i \in Reinvoked(outs, v))
  IN  [k \in 1..Len(weak) |->
         Call("Refine", RefineModel(outs[weak[k]].branchName), FALSE,
              outs[weak[k]].branchName)]

\* The instruction call returns: branchOutputs.map starts a refinement call for every
\* re-invoked branch; instruction.slice throws when the instruction is no string.
InstructionReturn ==
  /\ pc = "stageD_instr"
  /\ \E r \in InstructionResponses :
       LET re == Reinvoked(branchOutputs, verification) IN
       IF r = "nonstring"
       THEN /\ slots' = [i \in DOMAIN branchOutputs |->
                           Slot("D", IF i \in re THEN "rejected" ELSE "done",
                                branchOutputs[i].branchName, branchOutputs[i])]
            /\ calls' = calls
            /\ pc' = "threw"
       ELSE /\ slots' = [i \in DOMAIN branchOutputs |->
                           Slot("D", IF i \in re THEN "wait" ELSE "done",
                                branchOutputs[i].branchName, branchOutputs[i])]
            /\ calls' = calls \o RefineCalls(branchOutputs, verification)
            /\ pc' = "stageD"
  /\ UNCHANGED <<openaiClient, tier, budget, triPack, scratchpad, branchOutputs,
                 verification, recurrenceCount, shouldContinue, finalResponse, stages>>
  /\ UNCHANGED session

\* A refinement call returns.
RefineReturn(i) ==
  /\ pc = "stageD"
  /\ slots[i].st = "wait"
  /\ \E r \in RefineResponses :
       slots' = [slots EXCEPT ![i] = Slot("D", "done", slots[i].name,
                                          RefinedOutput(slots[i].val, r))]
  /\ UNCHANGED <<pc, openaiClient, tier, budget, triPack, scratchpad, branchOutputs,
                 verification, recurrenceCount, shouldContinue, finalResponse, calls,
                 stages>>
  /\ UNCHANGED session

\* StageDJoin without state.recurrenceCount++.
StageDJoinUncounted ==
  /\ pc = "stageD"
  /\ AllSettled
  /\ branchOutputs' = [i \in DOMAIN slots |-> slots[i].val]
  /\ recurrenceCount' = recurrenceCount
  /\ EnterStageC([i \in DOMAIN slots |-> slots[i].val])
  /\ UNCHANGED <<openaiClient, tier, budget, triPack, scratchpad, verification,
                 shouldContinue, finalResponse>>
  /\ UNCHANGED session

\* StageDJoin in a loop that does not verify the updated outputs again.
StageDJoinUnverified ==
  /\ pc = "stageD"
  /\ AllSettled
  /\ branchOutputs' = [i \in DOMAIN slots |-> slots[i].val]
  /\ recurrenceCount' = recurrenceCount + 1
  /\ slots' = <<>>
  /\ pc' = "loop"
  /\ UNCHANGED <<openaiClient, tier, budget, triPack, scratchpad, verification,
                 shouldContinue, finalResponse, calls, stages>>
  /\ UNCHANGED session

\* Promise.all of Stage D resolves with shouldRecur = true: the updated outputs, the
\* counter, then Stage C's calls again.
StageDJoin ==
  /\ pc = "stageD"
  /\ AllSettled
  /\ branchOutputs' = [i \in DOMAIN slots |-> slots[i].val]
  /\ recurrenceCount' = recurrenceCount + 1
  /\ EnterStageC([i \in DOMAIN slots |-> slots[i].val])
  /\ UNCHANGED <<openaiClient, tier, budget, triPack, scratchpad, verification,
                 shouldContinue, finalResponse>>
  /\ UNCHANGED session

\* The synthesizer's streaming call returns.
FinalReturn ==
  /\ pc = "final"
  /\ \E txt \in TextResponses : finalResponse' = txt
  /\ pc' = "done"
  /\ UNCHANGED <<openaiClient, tier, budget, triPack, scratchpad, branchOutputs,
                 verification, recurrenceCount, shouldContinue, slots, calls, stages>>
  /\ UNCHANGED session

MaxSlots == 3

\* The largest allowedDepth, in absolute value, of the profiler inputs below.
MaxProposed == 5

\* The responses stage0_TaskProfiler is applied to on its own: every combination
\* of the fields the budget is built from, the empty object {} among them, and a
\* response without a JSON object.
ProfilerInputs ==
  {PUnparsed} \cup
  {PResp(tt, rs, ad, rb) :
     tt \in {"", "code", "conversation"},
     rs \in {Undef, Num(3, 10), StrVal},
     ad \in {Undef, StrVal, Num(1, 2), Num(5, 2)}
             \cup {Whole(k) : k \in (0 - MaxProposed)..MaxProposed},
     rb \in {NoArr, Arr(<<>>), Arr(<<"logic">>), BadArr}}

\* The profiler's call has resolved with one of the inputs.
ProfilerInit ==
  /\ pc = "stage0"
  /\ openaiClient = TRUE
  /\ tier \in Tiers
  /\ budget = NoBudget
  /\ triPack = <<>>
  /\ scratchpad = <<>>
  /\ branchOutputs = <<>>
  /\ verification = NoVerification
  /\ recurrenceCount = 0
  /\ shouldContinue = TRUE
  /\ finalResponse = EmptyText
  /\ \E r \in ProfilerInputs : slots = <<Slot("P", "done", "", r)>>
  /\ calls = <<Call("Profiler", ModelProfiler, FALSE, "")>>
  /\ stages = <<"Profiler">>
  /\ session = NoSession

\* stage0_TaskProfiler from the return of its call to its own return.
stage0_TaskProfiler ==
  /\ pc = "stage0"
  /\ LET b == Stage0Budget(slots[1].val, tier) IN
     IF Stage0Throws(b)
     THEN /\ pc' = "threw"
          /\ budget' = budget
     ELSE /\ pc' = "profiled"
          /\ budget' = b
  /\ UNCHANGED <<openaiClient, tier, triPack, scratchpad, branchOutputs, verification,
                 recurrenceCount, shouldContinue, finalResponse, slots, calls, stages>>
  /\ UNCHANGED session

ProfilerNext == stage0_TaskProfiler

ProfilerSpec == ProfilerInit /\ [][ProfilerNext]_vars

\* The responses a single branch of Stage B is applied to on its own: the branch
\* and refinement payloads above, and texts without a JSON object that are empty,
\* shorter than, as long as and longer than 500 characters.
BranchInputs ==
  BranchResponses \cup RefineResponses
    \cup {BUnparsed(Text("raw", n)) : n \in {0, 499, 500, 501}}

\* A run that requested the one branch name has reached Stage B, and the branch's
\* call has resolved with one of the inputs.
BranchInit ==
  /\ pc = "stageB"
  /\ openaiClient = TRUE
  /\ tier = "low"
  /\ \E name \in Registry \cup ObjectPrototypeKeys :
       /\ budget = Stage0Budget(PResp("", Undef, Undef, Arr(<<name>>)), tier)
       /\ \E r \in BranchInputs : slots = <<Slot("B", "resolved", name, r)>>
       /\ calls = <<Call("Profiler", ModelProfiler, FALSE, "")>> \o DecomposerCalls
                    \o BranchCalls(<<name>>)
  /\ triPack = [symbolic |-> Text("view", 300), invariants |-> Text("view", 300),
                formal |-> Text("view", 300)]
  /\ scratchpad = <<>>
  /\ branchOutputs = <<>>
  /\ verification = NoVerification
  /\ recurrenceCount = 0
  /\ shouldContinue = TRUE
  /\ finalResponse = EmptyText
  /\ stages = <<"Profiler", "Decomposer", "Branches">>
  /\ session = NoSession

\* stageB_DendriticBranches for the one branch, from the return of its call to the
\* filtered result of Promise.all.
stageB_DendriticBranches ==
  /\ pc = "stageB"
  /\ slots[1].st = "resolved"
  /\ LET out == BranchOutputOf(slots[1].name, slots[1].val) IN
     IF ~IsArray(out.hypotheses)
     THEN /\ scratchpad' = Push(scratchpad, NoteEntry(out))
          /\ branchOutputs' = branchOutputs
          /\ pc' = "threw"
     ELSE /\ scratchpad' = Push(Push(scratchpad, NoteEntry(out)), HypothesisEntries(out))
          /\ IF HasToFixed(out.confidence)
             THEN /\ branchOutputs' = <<out>>
                  /\ pc' = "branched"
             ELSE /\ branchOutputs' = branchOutputs
                  /\ pc' = "threw"
  /\ UNCHANGED <<openaiClient, tier, budget, triPack, verification, recurrenceCount,
                 shouldContinue, finalResponse, slots, calls, stages>>
  /\ UNCHANGED session

BranchNext == stageB_DendriticBranches

BranchSpec == BranchInit /\ [][BranchNext]_vars

\* The responses a refinement is applied to on its own: the payloads above, raw
\* text, and payloads that report the confidences from 0 to 1.
RefineInputs ==
  RefineResponses \cup BranchResponses
    \cup {BResp(Arr(HypList(1)), NoArr, NoText, NoArr, c) :
            c \in {Undef, Whole(0), Num(1, 10), Num(1, 2), Num(17, 20), Num(9, 10),
                   Whole(1)}}

\* The Stage B responses whose output reaches the recurrence controller.
RefinedBranches == {BRaw, BFull, BLow, BOver}

\* The consistency response that names the branch code in a weak point.
WeakPointOnCode == CSResp(NoScores, Arr(<<WpEncoded>>), Num(3, 10))

\* A run with the one branch code has reached its first REFINE pass: the branch is
\* weak, and its refinement call has resolved with one of the inputs.
RefineInit ==
  /\ pc = "stageD"
  /\ openaiClient = TRUE
  /\ tier = "low"
  /\ budget = Stage0Budget(PResp("code", Undef, Undef, Arr(<<"code">>)), tier)
  /\ triPack = [symbolic |-> Text("view", 300), invariants |-> Text("view", 300),
                formal |-> Text("view", 300)]
  /\ \E b \in RefinedBranches :
       LET out == BranchOutputOf("code", b) IN
       /\ branchOutputs = <<out>>
       /\ scratchpad = Push(Push(<<>>, NoteEntry(out)), HypothesisEntries(out))
       /\ verification =
            VerificationOf(CEResp(Arr(<<Text("counterexample", 30)>>)),
                           WeakPointOnCode, <<out>>)
  /\ \E r \in RefineInputs : slots = <<Slot("D", "resolved", "code", r)>>
  /\ recurrenceCount = 0
  /\ shouldContinue = TRUE
  /\ finalResponse = EmptyText
  /\ calls = <<Call("Profiler", ModelProfiler, FALSE, "")>> \o DecomposerCalls
               \o BranchCalls(<<"code">>) \o VerificationCalls
               \o <<Call("Recurrence", ModelCheap, FALSE, ""),
                    Call("Refine", RefineModel("code"), FALSE, "code")>>
  /\ stages = <<"Profiler", "Decomposer", "Branches", "Verification", "Recurrence">>
  /\ session = NoSession

\* stageD_AdaptiveRecurrence for the one weak branch, from the return of its
\* refinement call to the controller's return and the loop's update of the state.
stageD_AdaptiveRecurrence ==
  /\ pc = "stageD"
  /\ slots[1].st = "resolved"
  /\ branchOutputs' = <<RefinedOutput(branchOutputs[1], slots[1].val)>>
  /\ recurrenceCount' = recurrenceCount + 1
  /\ pc' = "refined"
  /\ UNCHANGED <<openaiClient, tier, budget, triPack, scratchpad, verification,
                 shouldContinue, finalResponse, slots, calls, stages>>
  /\ UNCHANGED session

RefineNext == stageD_AdaptiveRecurrence

RefineSpec == RefineInit /\ [][RefineNext]_vars

-----------------------------------------------------------------------------
(* parseJsonFromResponse on texts.  A text is a sequence of tokens: "{" and    *)
(* "}", "m" (a member such as "a": 1, with the comma it needs), "k" (a key and *)
(* its colon, to be followed by an object) and "p" (prose).                    *)

Tokens == {"{", "}", "m", "k", "p"}

\* The longest text of the inputs below.
MaxText == 5

\* JSON.parse of an object that starts at position i of the text t: the position
\* after its closing brace, or 0 when the text is no JSON there.
RECURSIVE ObjEnd(_, _), ItemsEnd(_, _)
ObjEnd(t, i) ==
  IF i > Len(t) \/ t[i] # "{" THEN 0 ELSE ItemsEnd(t, i + 1)

ItemsEnd(t, i) ==
  IF i > Len(t) THEN 0
  ELSE IF t[i] = "}" THEN i + 1
  ELSE IF t[i] = "m" THEN ItemsEnd(t, i + 1)
  ELSE IF t[i] = "k"
       THEN LET e == ObjEnd(t, i + 1) IN IF e = 0 THEN 0 ELSE ItemsEnd(t, e)
  ELSE 0

\* JSON.parse(t) returns: t is one JSON object and nothing else.
JSONParses(t) == ObjEnd(t, 1) = Len(t) + 1

\* The positions of a token in a text.
Positions(t, tok) == {i \in DOMAIN t : t[i] = tok}

\* The smallest and the largest element of a non-empty set of positions.
First(S) == CHOOSE i \in S : \A j \in S : i <= j
Last(S) == CHOOSE i \in S : \A j \in S : j <= i

\* response.match(/\{[\s\S]*\}/): from the first opening brace to the last closing
\* brace of the text (the quantifier is greedy), <<>> when there is no match.
RegexMatch(t) ==
  IF Positions(t, "{") = {} THEN <<>>
  ELSE LET from == First(Positions(t, "{"))
           ends == {j \in Positions(t, "}") : j > from}
       IN  IF ends = {} THEN <<>> ELSE SubSeq(t, from, Last(ends))

NoJson == [parsed |-> FALSE, value |-> <<>>]

\* parseJsonFromResponse(t): the parsed match, or null.
ParseJson(t) ==
  LET m == RegexMatch(t)
  IN  IF m # <<>> /\ JSONParses(m) THEN [parsed |-> TRUE, value |-> m] ELSE NoJson

\* The texts parseJsonFromResponse is applied to.
ParserTexts == UNION {[1..n -> Tokens] : n \in 0..MaxText}

\* A gateway call has resolved with one of the texts.
ParserInit ==
  /\ pc = "parse"
  /\ openaiClient = TRUE
  /\ tier = "low"
  /\ budget = NoBudget
  /\ triPack = <<>>
  /\ scratchpad = <<>>
  /\ branchOutputs = <<>>
  /\ verification = NoVerification
  /\ recurrenceCount = 0
  /\ shouldContinue = TRUE
  /\ finalResponse = EmptyText
  /\ \E t \in ParserTexts : slots = <<Slot("T", "resolved", "", t)>>
  /\ calls = <<Call("Profiler", ModelProfiler, FALSE, "")>>
  /\ stages = <<"Profiler">>
  /\ session = NoSession

\* parseJsonFromResponse is applied to the text; its result is kept next to it.
parseJsonFromResponse ==
  /\ pc = "parse"
  /\ slots' = Append(slots, Slot("T", "parsed", "", ParseJson(slots[1].val)))
  /\ pc' = "parsed"
  /\ UNCHANGED <<openaiClient, tier, budget, triPack, scratchpad, branchOutputs,
                 verification, recurrenceCount, shouldContinue, finalResponse, calls,
                 stages>>
  /\ UNCHANGED session

ParserNext == parseJsonFromResponse

ParserSpec == ParserInit /\ [][ParserNext]_vars

-----------------------------------------------------------------------------
(* main: the interactive session.  A line is a sequence of characters. *)

UpperCase ==
  <<"A", "B", "C", "D", "E", "F", "G", "H", "I", "J", "K", "L", "M",
    "N", "O", "P", "Q", "R", "S", "T", "U", "V", "W", "X", "Y", "Z">>

LowerCase ==
  <<"a", "b", "c", "d", "e", "f", "g", "h", "i", "j", "k", "l", "m",
    "n", "o", "p", "q", "r", "s", "t", "u", "v", "w", "x", "y", "z">>

\* A toLowerCase that keeps the case.
KeepCase(s) == s

\* String.toLowerCase
toLowerCase(s) ==
  [i \in DOMAIN s |->
     IF \E k \in DOMAIN UpperCase : UpperCase[k] = s[i]
     THEN LowerCase[CHOOSE k \in DOMAIN UpperCase : UpperCase[k] = s[i]]
     ELSE s[i]]

\* String.trim: the text between the first and the last character that is no space.
trim(s) ==
  LET inked == {i \in DOMAIN s : s[i] # " "}
  IN  IF inked = {} THEN <<>> ELSE SubSeq(s, First(inked), Last(inked))

\* String.startsWith
startsWith(s, prefix) ==
  Len(s) >= Len(prefix) /\ SubSeq(s, 1, Len(prefix)) = prefix

\* String.slice(k): the text after the first k characters.
SliceFrom(s, k) == SubSeq(s, k + 1, Len(s))

\* ["low", "high", "max"]
TierNames == {<<"l", "o", "w">>, <<"h", "i", "g", "h">>, <<"m", "a", "x">>}

\* The lines typed at the prompt.
Lines ==
  {<<"e", "x", "i", "t">>,
   <<"Q", "U", "I", "T">>,
   <<" ", "q", "u", "i", "t", " ">>,
   <<"d", "e", "b", "u", "g">>,
   <<"D", "e", "b", "u", "g">>,
   <<"t", "i", "e", "r", " ", "l", "o", "w">>,
   <<"t", "i", "e", "r", " ", "h", "i", "g", "h">>,
   <<"t", "i", "e", "r", " ", "m", "a", "x">>,
   <<"t", "i", "e", "r", " ", "H", "I", "G", "H">>,
   <<"T", "I", "E", "R", " ", "M", "a", "x">>,
   <<" ", "t", "i", "e", "r", " ", "l", "o", "w", " ">>,
   <<"t", "i", "e", "r", " ", " ", "l", "o", "w">>,
   <<"t", "i", "e", "r", " ", "f", "a", "s", "t">>,
   <<"t", "i", "e", "r", " ", "l", "o", "w", " ", "n", "o", "w">>,
   <<"t", "i", "e", "r">>,
   <<"t", "i", "e", "r", "l", "o", "w">>,
   <<>>,
   <<" ", " ">>,
   <<"h", "i">>,
   <<" ", "h", "i", " ">>}

\* The lines the session reads.
MaxLines == 3

\* main has printed the banner: the tier and the debug setting of the command line,
\* and promptUser has asked its first question.
SessionInit ==
  /\ pc = "prompt"
  /\ openaiClient = TRUE
  /\ tier = "low"
  /\ budget = NoBudget
  /\ triPack = <<>>
  /\ scratchpad = <<>>
  /\ branchOutputs = <<>>
  /\ verification = NoVerification
  /\ recurrenceCount = 0
  /\ shouldContinue = TRUE
  /\ finalResponse = EmptyText
  /\ slots = <<>>
  /\ calls = <<>>
  /\ stages = <<>>
  /\ \E t \in TierNames, d \in BOOLEAN :
       session = [currentTier |-> t, currentDebug |-> d, isClosed |-> FALSE,
                  runs |-> <<>>, input |-> <<>>, read |-> 0]

\* The callback of rl.question on a line, up to its return or to the call of
\* runARDR.
promptUser ==
  /\ pc = "prompt"
  /\ ~session.isClosed
  /\ session.read < MaxLines
  /\ \E input \in Lines :
       LET trimmed == trim(input)
           s == [session EXCEPT !.input = input, !.read = @ + 1]
       IN  IF toLowerCase(trimmed) \in {<<"e", "x", "i", "t">>, <<"q", "u", "i", "t">>}
           THEN /\ session' = [s EXCEPT !.isClosed = TRUE]
                /\ pc' = "exited"
           ELSE IF startsWith(toLowerCase(trimmed), <<"t", "i", "e", "r", " ">>)
           THEN LET newTier == toLowerCase(SliceFrom(trimmed, 5))
                IN  /\ session' = IF newTier \in TierNames
                                  THEN [s EXCEPT !.currentTier = newTier]
                                  ELSE s
                    /\ pc' = "prompt"
           ELSE IF toLowerCase(trimmed) = <<"d", "e", "b", "u", "g">>
           THEN /\ session' = [s EXCEPT !.currentDebug = ~@]
                /\ pc' = "prompt"
           ELSE IF trimmed = <<>>
           THEN /\ session' = s
                /\ pc' = "prompt"
           ELSE /\ session' = [s EXCEPT !.runs = Append(@, [input |-> trimmed,
                                                            tier |-> s.currentTier,
                                                            debug |-> s.currentDebug])]
                /\ pc' = "running"
  /\ UNCHANGED <<openaiClient, tier, budget, triPack, scratchpad, branchOutputs,
                 verification, recurrenceCount, shouldContinue, finalResponse, slots,
                 calls, stages>>

\* runARDR returns or throws (the error is caught and printed); promptUser asks the
\* next question.
RunReturns ==
  /\ pc = "running"
  /\ pc' = "prompt"
  /\ UNCHANGED <<openaiClient, tier, budget, triPack, scratchpad, branchOutputs,
                 verification, recurrenceCount, shouldContinue, finalResponse, slots,
                 calls, stages, session>>

\* The handler of 'close' (end of input, or SIGINT): the process exits.
Close ==
  /\ pc \in {"prompt", "running"}
  /\ session' = [session EXCEPT !.isClosed = TRUE]
  /\ pc' = "exited"
  /\ UNCHANGED <<openaiClient, tier, budget, triPack, scratchpad, branchOutputs,
                 verification, recurrenceCount, shouldContinue, finalResponse, slots,
                 calls, stages>>

SessionNext ==
  \/ promptUser
  \/ RunReturns
  \/ Close

SessionSpec == SessionInit /\ [][SessionNext]_vars

Next ==
  \/ Start
  \/ Stage0Return
  \/ FastReturn
  \/ \E i \in 1..MaxSlots : i \in DOMAIN slots /\ StageAReturn(i)
  \/ StageAJoin
  \/ \E i \in 1..MaxSlots : i \in DOMAIN slots /\ BranchReturn(i)
  \/ StageBJoin
  \/ \E i \in 1..MaxSlots : i \in DOMAIN slots /\ VerifyReturn(i)
  \/ StageCJoin
  \/ LoopIterate
  \/ LoopExit
  \/ InstructionReturn
  \/ \E i \in 1..MaxSlots : i \in DOMAIN slots /\ RefineReturn(i)
  \/ StageDJoin
  \/ FinalReturn

Spec == Init /\ [][Next]_vars

-----------------------------------------------------------------------------
(* Properties *)

\* x is a number in [0, 1].
InUnitInterval(x) ==
  x.t = "num" /\ x.d > 0 /\ 0 <= x.n /\ x.n <= x.d

\* k <= x for an integer k and a number x.
AtMostDepth(k, x) == x.t = "num" /\ x.d > 0 /\ k * x.d <= x.n

\* The budget sends the run down the fast path.
Conversational ==
  /\ budget # NoBudget
  /\ \/ budget.taskType = "conversation"
     \/ budget.branches = Arr(<<>>)

\* The run has passed the profiler and did not take the fast path.
Staged == budget # NoBudget /\ ~Conversational

\* C1: in every run that does not take the fast path, from before the recurrence
\* loop starts until the synthesizer has returned, recurrenceCount <= allowedDepth,
\* whatever allowedDepth the profiler's model proposed.
C1_CountWithinDepth ==
  (Staged /\ pc \in {"loop", "stageD_instr", "stageD", "final", "done"})
    => AtMostDepth(recurrenceCount, budget.allowedDepth)

\* C2: with the gateway initialized and every call returning, every run
\* eventually returns a final response: a run stops only once it has returned one.
C2_StopsOnlyWhenDone == openaiClient => (pc = "done" \/ ENABLED Next)

\* C3: after Stage B and after every recurrence pass the confidence of every
\* current branch output lies in [0, 1].
C3_ConfidenceInRange ==
  \A i \in DOMAIN branchOutputs : InUnitInterval(branchOutputs[i].confidence)

\* C4: after every verification pass the uncertainty score lies in [0, 1].
C4_UncertaintyInRange ==
  verification # NoVerification => InUnitInterval(verification.uncertaintyScore)

\* C5: a budget with taskType "conversation" or an empty branch list leads to
\* exactly one further gateway call, a streaming call to the tier's chief model,
\* whose text is returned; no stage after the profiler runs and the scratchpad
\* stays empty.
C5_FastPath ==
  Conversational =>
    /\ pc \in {"fast", "done"}
    /\ calls = <<Call("Profiler", "profiler", FALSE, ""),
                 Call("Fast",
                      IF tier = "max" THEN "chiefMax"
                      ELSE IF tier = "high" THEN "chiefHigh" ELSE "chiefLow",
                      TRUE, "")>>
    /\ stages = <<"Profiler">>
    /\ scratchpad = <<>>
    /\ branchOutputs = <<>>
    /\ slots = <<>>
    /\ triPack = <<>>
    /\ verification = NoVerification
    /\ recurrenceCount = 0
    /\ (pc = "fast" => finalResponse = EmptyText)
    /\ (pc = "done" => finalResponse \in TextResponses)

\* A fast-path run has returned for a budget that is not conversational but names
\* no branch.
C5_Witness ==
  /\ pc = "done"
  /\ Conversational
  /\ budget.taskType = "writing"
  /\ finalResponse = Text("answer", 300)

\* The stage sequences of a completed staged run: Profiler, Decomposer, Branches,
\* Verification, then rounds of (Recurrence, Verification), then possibly the
\* controller's last evaluation, then Synthesizer.
RECURSIVE Rounds(_)
Rounds(s) ==
  \/ s = <<"Synthesizer">>
  \/ s = <<"Recurrence", "Synthesizer">>
  \/ /\ Len(s) > 2
     /\ s[1] = "Recurrence"
     /\ s[2] = "Verification"
     /\ Rounds(SubSeq(s, 3, Len(s)))

CompleteTrace(s) ==
  /\ Len(s) >= 5
  /\ SubSeq(s, 1, 4) = <<"Profiler", "Decomposer", "Branches", "Verification">>
  /\ Rounds(SubSeq(s, 5, Len(s)))

\* C6: every run that does not take the fast path (here: with the gateway
\* initialized) executes Profiler, Decomposer, Branches, Verification, rounds of
\* (Recurrence, Verification) and then the Synthesizer, exactly once and last.
C6_StageOrder ==
  (openaiClient /\ pc \in {"done", "threw"} /\ ~Conversational)
    => CompleteTrace(stages)

\* C7: with the gateway initialized no response of any gateway call makes the run
\* throw.
C7_NoException == openaiClient => pc # "threw"

\* C8: with the gateway not initialized the run aborts at the profiler's call: no
\* call reaches the provider, no later stage runs, nothing is written to the
\* scratchpad and no final response is returned.
C8_ConfigurationFailure ==
  ~openaiClient =>
    /\ pc \in {"start", "threw"}
    /\ (pc = "threw" => stages = <<"Profiler">>)
    /\ (pc = "start" => stages = <<>>)
    /\ calls = <<>>
    /\ budget = NoBudget
    /\ scratchpad = <<>>
    /\ branchOutputs = <<>>
    /\ slots = <<>>
    /\ finalResponse = EmptyText

\* The run without a client has aborted.
C8_Witness == ~openaiClient /\ pc = "threw"

\* The names the profiler requested.
Requested == IF budget.branches.t = "arr" THEN Range(budget.branches.a) ELSE {}

\* C9: Stage B calls the gateway only for requested names of the registry, and
\* only those names get a branch output or a scratchpad entry.
C9_OnlyRegistryBranches ==
  LET allowed == Requested \cap {"logic", "pattern", "world", "code", "adversarial"}
  IN  /\ \A i \in DOMAIN calls : calls[i].stage = "Branches" => calls[i].name \in allowed
      /\ \A i \in DOMAIN branchOutputs : branchOutputs[i].branchName \in allowed
      /\ \A i \in DOMAIN scratchpad : scratchpad[i].branch \in allowed

\* C10: the current branch outputs hold at most one output per branch name.
C10_OneOutputPerName ==
  \A i, j \in DOMAIN branchOutputs :
    branchOutputs[i].branchName = branchOutputs[j].branchName => i = j

\* s is a prefix of t.
IsPrefix(s, t) == Len(s) <= Len(t) /\ SubSeq(t, 1, Len(s)) = s

\* C11: the scratchpad is append-only: in every step of every stage the entries of
\* the previous state are a prefix of the entries of the next state.
C11_AppendOnly == [][IsPrefix(scratchpad, scratchpad')]_vars

\* A run with a REFINE pass has returned, and two branches wrote to the scratchpad.
C11_Witness ==
  /\ pc = "done"
  /\ recurrenceCount = 1
  /\ \E i, j \in DOMAIN scratchpad : scratchpad[i].branch # scratchpad[j].branch

\* C12: every branch invocation writes to the scratchpad, recurrent ones included:
\* when the refinement call of a re-invoked branch returns, at least one entry with
\* that branch's name is appended.
C12_RefineAppends ==
  [][\A i \in DOMAIN slots :
       (pc = "stageD" /\ slots[i].st = "wait" /\ slots'[i].st # "wait")
         => \E k \in (DOMAIN scratchpad') \ (DOMAIN scratchpad) :
              scratchpad'[k].branch = slots[i].name]_vars

\* The names of a sequence of branch outputs.
NamesOf(outs) == [k \in DOMAIN outs |-> outs[k].branchName]

\* C13: the branch outputs a fan-out produces do not depend on the order in which
\* its calls complete: they stand in the order of the requested names that have a
\* config, after Stage B and after every REFINE pass, and after Stage B the k-th
\* output is the one built from the response of the k-th such name.
C13_MergeInRequestOrder ==
  branchOutputs # <<>> =>
    /\ NamesOf(branchOutputs) = SelectSeq(budget.branches.a, HasConfig)
    /\ recurrenceCount = 0 =>
         \A k \in DOMAIN branchOutputs :
           \E p \in DOMAIN scratchpad :
             scratchpad[p] =
               Entry(branchOutputs[k].branchName, branchOutputs[k].notes, "note")

\* A run has returned in which the second requested branch completed first, and a
\* REFINE pass followed.
C13_Witness ==
  /\ pc = "done"
  /\ recurrenceCount = 1
  /\ NamesOf(branchOutputs) = <<"code", "logic">>
  /\ scratchpad[1].branch = "logic"

\* A gateway call of the current fan-out is outstanding.
Outstanding == \E i \in DOMAIN slots : slots[i].st = "wait"

\* C14: fan-in barrier.  While a gateway call of a stage is outstanding no call of
\* a later stage is issued and no later stage starts or delivers its result; and
\* once a verification call has been issued no branch appends to the scratchpad.
C14_FanInBarrier ==
  [][/\ Outstanding =>
          /\ calls' = calls
          /\ stages' = stages
          /\ triPack' = triPack
          /\ branchOutputs' = branchOutputs
          /\ verification' = verification
          /\ recurrenceCount' = recurrenceCount
     /\ (\E k \in DOMAIN calls : calls[k].stage = "Verification")
          => scratchpad' = scratchpad]_vars

\* One branch of Stage B has completed and written its entries while the call of
\* another is still outstanding.
C14_Witness ==
  /\ pc = "stageB"
  /\ scratchpad # <<>>
  /\ \E i, j \in DOMAIN slots : slots[i].st = "done" /\ slots[j].st = "wait"

\* The block a Stage B output leaves in the scratchpad: its note entry, then its
\* hypotheses in their order.
BlockOf(out) ==
  <<[branch |-> out.branchName, content |-> out.notes, type |-> "note"]>>
    \o [i \in 1..Len(out.hypotheses.a) |->
          [branch |-> out.branchName, content |-> out.hypotheses.a[i],
           type |-> "hypothesis"]]

\* The block of out lies at position p of the log and ends where the log ends or
\* where the next block begins.
BlockAt(out, p) ==
  LET n == Len(BlockOf(out))
  IN  /\ p + n - 1 <= Len(scratchpad)
      /\ SubSeq(scratchpad, p, p + n - 1) = BlockOf(out)
      /\ p + n <= Len(scratchpad) => scratchpad[p + n].type = "note"

\* C15: under every interleaving of the Stage B completions the scratchpad is a
\* sequence of blocks, one for every completed branch: a hypothesis entry follows
\* an entry of its own branch, there is one note entry for every branch
\* continuation that ran, and the block of every completed branch is in the log
\* whole, unbroken and in order.
C15_ContiguousBlocks ==
  /\ \A k \in DOMAIN scratchpad :
       scratchpad[k].type = "hypothesis" =>
         k > 1 /\ scratchpad[k - 1].branch = scratchpad[k].branch
  /\ \A i \in DOMAIN slots :
       (slots[i].kind = "B" /\ slots[i].st = "done") =>
         \E p \in DOMAIN scratchpad : BlockAt(slots[i].val, p)
  /\ (\E i \in DOMAIN slots : slots[i].kind = "B") =>
       Cardinality({k \in DOMAIN scratchpad : scratchpad[k].type = "note"})
         = Cardinality({i \in DOMAIN slots : slots[i].st \in {"done", "rejected"}})

\* Two branches have completed, the second requested one first, and one of them
\* wrote two hypotheses.
C15_Witness ==
  /\ pc = "stageB"
  /\ Len(slots) = 2
  /\ slots[1].st = "done" /\ slots[2].st = "done"
  /\ slots[1].name # slots[2].name
  /\ scratchpad[1].branch = slots[2].name
  /\ \E i \in {1, 2} : Len(slots[i].val.hypotheses.a) = 2

\* The response the profiler's call resolved with.
ProfilerResponse == slots[1].val

\* C16: for every tier and every numeric allowedDepth the profiler's model
\* proposes, the budget's allowedDepth is at most the tier's ceiling (max 3,
\* high 2, low 1).
C16_DepthAtMostCeiling ==
  (/\ pc = "profiled"
   /\ ProfilerResponse.parsed
   /\ ProfilerResponse.allowedDepth.t = "num")
    => Le(budget.allowedDepth,
          Whole(IF tier = "max" THEN 3 ELSE IF tier = "high" THEN 2 ELSE 1))

\* A proposal above every ceiling has been cut to the ceiling of tier low.
C16_Witness ==
  /\ pc = "profiled"
  /\ tier = "low"
  /\ ProfilerResponse.allowedDepth = Whole(5)
  /\ budget.allowedDepth = Whole(1)

\* C17: for every profiler response the budget's allowedDepth is an integer in
\* 1..3, whatever allowedDepth the model proposes.
C17_DepthInRange ==
  pc = "profiled" => budget.allowedDepth \in {Whole(1), Whole(2), Whole(3)}

\* The response cannot be parsed into the expected shape: no JSON object comes out
\* of it, or the object has none of the expected fields.
Malformed(r) ==
  \/ ~r.parsed
  \/ /\ r.taskType = ""
     /\ r.riskScore = Undef
     /\ r.allowedDepth = Undef
     /\ r.requiredBranches = NoArr

\* C18: a profiler response that cannot be parsed into the expected shape yields
\* the hard-coded default budget: taskType "reasoning", branches logic, world and
\* code, allowedDepth the tier's ceiling.
C18_DefaultOnMalformed ==
  (pc = "profiled" /\ Malformed(ProfilerResponse)) =>
    /\ budget.taskType = "reasoning"
    /\ budget.branches = Arr(<<"logic", "world", "code">>)
    /\ budget.allowedDepth
         = Whole(IF tier = "max" THEN 3 ELSE IF tier = "high" THEN 2 ELSE 1)

\* The response the branch's call resolved with.
BranchResponse == slots[1].val

\* C19: a branch whose response yields no parsed JSON payload, an error marker
\* included, gets a degraded output: its sole hypothesis is the response cut to its
\* first 500 characters, artifacts and contradictions are empty and the confidence
\* is exactly 0.5.
C19_DegradedOutput ==
  (pc \in {"branched", "threw"} /\ ~BranchResponse.parsed) =>
    /\ pc = "branched"
    /\ Len(branchOutputs) = 1
    /\ branchOutputs[1].branchName = slots[1].name
    /\ branchOutputs[1].hypotheses =
         [t |-> "arr",
          a |-> <<[s |-> BranchResponse.text.s,
                   len |-> IF BranchResponse.text.len < 500
                           THEN BranchResponse.text.len ELSE 500]>>]
    /\ branchOutputs[1].artifacts = [t |-> "arr", a |-> <<>>]
    /\ branchOutputs[1].contradictions = [t |-> "arr", a |-> <<>>]
    /\ branchOutputs[1].confidence = [t |-> "num", n |-> 1, d |-> 2]

\* A raw text of 700 characters has become a hypothesis of 500 characters.
C19_Witness ==
  /\ pc = "branched"
  /\ BranchResponse = BRaw
  /\ branchOutputs[1].hypotheses.a = <<Text("I think X happens because Y", 500)>>
  /\ branchOutputs[1].confidence = Num(1, 2)

\* A provider failure has become a degraded output whose hypothesis is the marker.
C19_WitnessError ==
  /\ pc = "branched"
  /\ BranchResponse = BError
  /\ branchOutputs[1].hypotheses.a = <<ErrorMarker>>

\* The verification result is the one the controller stops on at once: an
\* uncertainty below 0.55 and no weak point.
Confident ==
  /\ verification # NoVerification
  /\ Lt(verification.uncertaintyScore, [t |-> "num", n |-> 11, d |-> 20])
  /\ verification.weakPoints = [t |-> "arr", a |-> <<>>]

\* C20: whenever a verification pass yields uncertaintyScore < 0.55 and no weak
\* point, the recurrence controller stops at once: the step after the pass is the
\* controller's stop, which issues no gateway call, or the synthesizer's start; the
\* branch outputs and recurrenceCount stay as they are.
C20_StopsAtOnce ==
  [][(pc = "loop" /\ Confident) =>
       /\ branchOutputs' = branchOutputs
       /\ recurrenceCount' = recurrenceCount
       /\ verification' = verification
       /\ \/ /\ shouldContinue
             /\ pc' = "loop"
             /\ ~shouldContinue'
             /\ calls' = calls
             /\ stages' = Append(stages, "Recurrence")
          \/ /\ pc' \in {"final", "threw"}
             /\ stages' = Append(stages, "Synthesizer")
             /\ \A k \in (DOMAIN calls') \ (DOMAIN calls) :
                  calls'[k].stage = "Synthesizer"]_vars

\* The controller has stopped after the first verification pass although a branch
\* scored below 0.5: the uncertainty is below 0.55 and there is no weak point.
C20_Witness ==
  /\ pc = "loop"
  /\ Confident
  /\ ~shouldContinue
  /\ recurrenceCount = 0
  /\ stages[Len(stages)] = "Recurrence"
  /\ \E i \in DOMAIN branchOutputs :
       Lt(ScoreOf(branchOutputs[i], verification), Num(1, 2))

\* The step starts the synthesizer and issues no call but the synthesizer's.
SynthesizerNext ==
  /\ pc' \in {"final", "threw"}
  /\ stages' = Append(stages, "Synthesizer")
  /\ \A k \in (DOMAIN calls') \ (DOMAIN calls) : calls'[k].stage = "Synthesizer"

\* C21: whenever recurrenceCount equals allowedDepth the controller stops, whatever
\* the uncertainty score and the weak points are: no instruction call and no
\* refinement call is issued, the branch outputs and the verification result stay
\* as they are, and the synthesizer runs next.
C21_StopsAtDepth ==
  [][(pc = "loop" /\ budget.allowedDepth = [t |-> "num", n |-> recurrenceCount, d |-> 1])
       => /\ branchOutputs' = branchOutputs
          /\ verification' = verification
          /\ recurrenceCount' = recurrenceCount
          /\ SynthesizerNext]_vars

\* The synthesizer has started after one REFINE pass at depth 1 although the last
\* verification left the uncertainty at 0.55 or above and the loop was not stopped.
C21_Witness ==
  /\ pc = "final"
  /\ recurrenceCount = 1
  /\ budget.allowedDepth = Whole(1)
  /\ shouldContinue
  /\ Ge(verification.uncertaintyScore, Num(11, 20))

\* The branch is weak as the selection rule is specified: its verification score,
\* or its own confidence when the verifier gave no score for it, is below 0.5, or
\* some weak-point text contains its name.
WeakAsSpecified(b, v) ==
  LET s == v.branchScores[b.branchName]
      score == IF s.t = "undef" THEN b.confidence ELSE s
  IN  \/ Lt(score, [t |-> "num", n |-> 1, d |-> 2])
      \/ /\ v.weakPoints.t = "arr"
         /\ \E i \in DOMAIN v.weakPoints.a : Includes(v.weakPoints.a[i], b.branchName)

\* C22: a branch is selected as weak if and only if it is weak as specified.  When
\* the controller goes past its first test it issues the instruction call exactly
\* if some branch is weak, and the branches it then re-invokes are those that carry
\* the name of a weak branch.
C22_SelectWeak ==
  [][/\ (/\ pc = "loop"
         /\ stages' = Append(stages, "Recurrence")
         /\ pc' # "threw"
         /\ ~Confident)
          => (pc' = "stageD_instr" <=>
                \E i \in DOMAIN branchOutputs :
                  WeakAsSpecified(branchOutputs[i], verification))
     /\ (pc = "stageD_instr" /\ pc' = "stageD")
          => \A i \in DOMAIN branchOutputs :
               slots'[i].st = "wait" <=>
                 \E j \in DOMAIN branchOutputs :
                   /\ branchOutputs[j].branchName = branchOutputs[i].branchName
                   /\ WeakAsSpecified(branchOutputs[j], verification)]_vars

\* C23: in a REFINE pass exactly the weak branches are re-invoked, with one
\* gateway call each after one instruction call, and the output of every branch
\* that is not weak is the same before and after the pass.
C23_OnlyWeakReinvoked ==
  [][/\ (pc = "loop" /\ pc' = "stageD_instr")
          => /\ Len(calls') = Len(calls) + 1
             /\ calls'[Len(calls')].stage = "Recurrence"
     /\ (pc = "stageD_instr" /\ pc' = "stageD")
          => /\ \A i \in DOMAIN branchOutputs :
                  slots'[i].st = "wait" <=> IsWeak(branchOutputs[i], verification)
             /\ Len(calls') = Len(calls)
                  + Cardinality({i \in DOMAIN branchOutputs :
                                   IsWeak(branchOutputs[i], verification)})
             /\ \A k \in (DOMAIN calls') \ (DOMAIN calls) : calls'[k].stage = "Refine"
     /\ (pc = "stageD" /\ pc' # "stageD")
          => \A i \in DOMAIN branchOutputs :
               ~IsWeak(branchOutputs[i], verification)
                 => branchOutputs'[i] = branchOutputs[i]]_vars

\* The response the refinement call resolved with.
RefineResponse == slots[1].val

\* C24: when the refinement response parses and reports a confidence, the branch's
\* new confidence is min(reported + 0.1, 0.95), for every reported value, 0
\* included.
C24_BoostedConfidence ==
  [][(/\ pc = "stageD" /\ pc' = "refined"
      /\ RefineResponse.parsed
      /\ RefineResponse.confidence.t = "num")
       => branchOutputs'[1].confidence =
            MathMin(Plus(RefineResponse.confidence, [t |-> "num", n |-> 1, d |-> 10]),
                    [t |-> "num", n |-> 19, d |-> 20])]_vars

\* C25: when the refinement response does not parse, the branch keeps its
\* hypotheses, artifacts, notes and contradictions, and its confidence becomes the
\* previous confidence plus 0.1.
C25_KeepsOnParseFailure ==
  [][(pc = "stageD" /\ pc' = "refined" /\ ~RefineResponse.parsed)
       => /\ branchOutputs'[1].branchName = branchOutputs[1].branchName
          /\ branchOutputs'[1].hypotheses = branchOutputs[1].hypotheses
          /\ branchOutputs'[1].artifacts = branchOutputs[1].artifacts
          /\ branchOutputs'[1].notes = branchOutputs[1].notes
          /\ branchOutputs'[1].contradictions = branchOutputs[1].contradictions
          /\ branchOutputs'[1].confidence =
               Plus(branchOutputs[1].confidence, [t |-> "num", n |-> 1, d |-> 10])]_vars

\* The refinement of the branch that reported the confidence 0.3 came back as an
\* error marker: the branch has its Stage B fields and the confidence 0.4.
C25_Witness ==
  /\ pc = "refined"
  /\ RefineResponse = BError
  /\ branchOutputs = <<[BranchOutputOf("code", BLow) EXCEPT !.confidence = Num(2, 5)]>>

\* C26: a refinement that parses replaces the branch's output and never merges
\* with it: hypotheses, artifacts, notes and contradictions come from the payload
\* alone, and a field the payload omits is empty, not the earlier instance's.
C26_ReplacesNeverMerges ==
  [][(pc = "stageD" /\ pc' = "refined" /\ RefineResponse.parsed)
       => /\ branchOutputs'[1].hypotheses =
               (IF RefineResponse.hypotheses.t = "undef"
                THEN [t |-> "arr", a |-> <<>>] ELSE RefineResponse.hypotheses)
          /\ branchOutputs'[1].artifacts =
               (IF RefineResponse.artifacts.t = "undef"
                THEN [t |-> "arr", a |-> <<>>] ELSE RefineResponse.artifacts)
          /\ branchOutputs'[1].contradictions =
               (IF RefineResponse.contradictions.t = "undef"
                THEN [t |-> "arr", a |-> <<>>] ELSE RefineResponse.contradictions)
          /\ branchOutputs'[1].notes \in
               (IF RefineResponse.notes.t = "str" /\ RefineResponse.notes.s.len > 0
                THEN {RefineResponse.notes.s}
                ELSE {[s |-> "", len |-> 0], RefineResponse.text})]_vars

\* The uncertainty the consistency scorer reported: 0.5 only when its response
\* does not parse or has no such field.
ReportedUncertainty(cs) ==
  IF cs.parsed /\ cs.uncertainty.t # "undef" THEN cs.uncertainty
  ELSE [t |-> "num", n |-> 1, d |-> 2]

\* C27: after every verification pass uncertaintyScore is
\* (reported uncertainty + (1 - mean of the branch confidences)) / 2, for every
\* reported value, 0 included.
C27_BlendedUncertainty ==
  [][(pc = "stageC" /\ pc' = "loop")
       => verification'.uncertaintyScore =
            DivInt(Plus(ReportedUncertainty(slots[2].val),
                        Minus([t |-> "num", n |-> 1, d |-> 1],
                              DivInt(SumConfidence(branchOutputs), Len(branchOutputs)))),
                   2)]_vars

\* The number of verification passes in a stage sequence.
VerificationPasses(s) == Cardinality({k \in DOMAIN s : s[k] = "Verification"})

\* C28: every REFINE pass increments recurrenceCount by exactly 1 and is followed
\* by one verification pass on the updated outputs, which completes before any
\* further recurrence decision or synthesis; recurrenceCount changes in no other
\* step, so it never decreases, and it counts the verification passes after the
\* first.
C28_CountsRefinePasses ==
  [][/\ recurrenceCount' # recurrenceCount
          => pc = "stageD" /\ pc' # "stageD"
     /\ (pc = "stageD" /\ pc' # "stageD")
          => /\ recurrenceCount' = recurrenceCount + 1
             /\ stages' = Append(stages, "Verification")
             /\ pc' \in {"stageC", "threw"}
             /\ \A i \in DOMAIN branchOutputs' : branchOutputs'[i] = slots[i].val
     /\ pc = "stageC" => (pc' \in {"stageC", "loop"} /\ stages' = stages)
     /\ Len(stages') >= 4
          => VerificationPasses(stages') = recurrenceCount' + 1]_vars

\* Two REFINE passes have been made, each followed by a verification pass.
C28_Witness ==
  /\ pc = "loop"
  /\ recurrenceCount = 2
  /\ stages = <<"Profiler", "Decomposer", "Branches", "Verification", "Recurrence",
                "Verification", "Recurrence", "Verification">>

\* No branch output is weak, and the weak points are a list.
NoneWeak ==
  /\ verification # NoVerification
  /\ verification.weakPoints.t = "arr"
  /\ \A i \in DOMAIN branchOutputs : ~WeakAsSpecified(branchOutputs[i], verification)

\* C29: when no branch qualifies as weak the controller stops without a gateway
\* call and without changing the branch outputs or recurrenceCount, whatever the
\* uncertainty score and the weak points are.
C29_StopsWithoutWeak ==
  [][(pc = "loop" /\ NoneWeak) =>
       /\ branchOutputs' = branchOutputs
       /\ recurrenceCount' = recurrenceCount
       /\ verification' = verification
       /\ \/ /\ shouldContinue
             /\ pc' = "loop"
             /\ ~shouldContinue'
             /\ calls' = calls
             /\ stages' = Append(stages, "Recurrence")
          \/ SynthesizerNext]_vars

\* The controller has stopped for want of a weak branch although the uncertainty
\* is 0.55 or above.
C29_Witness ==
  /\ pc = "loop"
  /\ NoneWeak
  /\ branchOutputs # <<>>
  /\ ~shouldContinue
  /\ stages[Len(stages)] = "Recurrence"
  /\ Ge(verification.uncertaintyScore, Num(11, 20))

\* The controller has stopped for want of a weak branch although a weak point is
\* listed.
C29_WitnessWeakPoint ==
  /\ pc = "loop"
  /\ NoneWeak
  /\ branchOutputs # <<>>
  /\ ~shouldContinue
  /\ stages[Len(stages)] = "Recurrence"
  /\ verification.weakPoints.a # <<>>

\* The end of the balanced brace region that starts at position i of the text t,
\* or 0 when the braces opened from i on are not all closed.
RECURSIVE BalancedEnd(_, _, _)
BalancedEnd(t, i, depth) ==
  IF i > Len(t) THEN 0
  ELSE LET d == depth + (IF t[i] = "{" THEN 1 ELSE IF t[i] = "}" THEN -1 ELSE 0)
       IN  IF d = 0 THEN i ELSE BalancedEnd(t, i + 1, d)

\* The first balanced {...} region of a text: the one its first opening brace
\* starts, <<>> when there is none.
FirstBalanced(t) ==
  IF Positions(t, "{") = {} THEN <<>>
  ELSE LET from == First(Positions(t, "{"))
       IN  IF BalancedEnd(t, from, 0) = 0 THEN <<>>
           ELSE SubSeq(t, from, BalancedEnd(t, from, 0))

\* C30: parseJsonFromResponse returns the parse of the first balanced {...} region
\* of the text, also when more text with braces follows it, and returns none only
\* when there is no such region or the region is no JSON.
C30_FirstBalancedRegion ==
  pc = "parsed" =>
    LET region == FirstBalanced(slots[1].val)
    IN  slots[2].val =
          (IF region # <<>> /\ JSONParses(region)
           THEN [parsed |-> TRUE, value |-> region]
           ELSE [parsed |-> FALSE, value |-> <<>>])

\* The calls of a stage for a branch name.
CallsFor(stage, name) ==
  {i \in DOMAIN calls : calls[i].stage = stage /\ calls[i].name = name}

\* The recurrence pass a call belongs to: the instruction calls issued before it.
PassOf(i) == Cardinality({j \in 1..i : calls[j].stage = "Recurrence"})

\* The branch names the calls carry.
CalledNames == {calls[i].name : i \in DOMAIN calls} \ {""}

\* C31: no call is repeated: a branch is invoked at most once in Stage B and at
\* most once in a recurrence pass, so at most 1 + allowedDepth times in a run.
C31_NoRetry ==
  \A n \in CalledNames :
    /\ Cardinality(CallsFor("Branches", n)) <= 1
    /\ \A p \in 1..Len(calls) :
         Cardinality({i \in CallsFor("Refine", n) : PassOf(i) = p}) <= 1
    /\ Le(Whole(Cardinality(CallsFor("Branches", n) \cup CallsFor("Refine", n))),
          Plus(Whole(1), budget.allowedDepth))

\* A text in lower case.
Lowered(s) ==
  [i \in DOMAIN s |->
     LET k == {j \in DOMAIN UpperCase : UpperCase[j] = s[i]}
     IN  IF k = {} THEN s[i] ELSE LowerCase[CHOOSE j \in k : TRUE]]

\* The prompt has read a line in this step.
LineRead == session'.read = session.read + 1

\* The run that the line read in this step starts.
RunStarted ==
  [input |-> trim(session'.input), tier |-> session.currentTier,
   debug |-> session.currentDebug]

\* What a line does when the commands are read as the text t of the line:
\* 'tier X' sets the tier exactly when X is low, high or max and starts no run;
\* every other non-empty line but exit, quit and debug starts one run with the
\* current tier and debug setting.
SessionStep(t) ==
  IF startsWith(t, <<"t", "i", "e", "r", " ">>)
  THEN /\ session'.currentTier = IF SliceFrom(t, 5) \in TierNames
                                 THEN SliceFrom(t, 5)
                                 ELSE session.currentTier
       /\ session'.runs = session.runs
  ELSE /\ session'.currentTier = session.currentTier
       /\ session'.runs =
            IF t = <<>> \/ t \in {<<"e", "x", "i", "t">>, <<"q", "u", "i", "t">>,
                                  <<"d", "e", "b", "u", "g">>}
            THEN session.runs
            ELSE Append(session.runs, RunStarted)

\* C32 as stated: the commands are the words tier, low, high, max, exit, quit
\* and debug as written, in the line without the spaces around it.
C32_TierCommand ==
  [][LineRead => \A t \in {trim(session'.input)} : SessionStep(t)]_vars

\* C32 with the commands read without regard to case: 'tier X' sets the tier
\* exactly when X in lower case is low, high or max and starts no run; every other
\* non-empty line but exit, quit and debug, in any case, starts one run.
C32_TierCommandAnyCase ==
  [][LineRead => \A u \in {trim(session'.input)} :
                    \A t \in {Lowered(u)} : SessionStep(t)]_vars

\* Two runs of one session with different tiers: a tier command between two queries.
C32_Witness ==
  /\ pc = "running"
  /\ Len(session.runs) = 2
  /\ session.runs[1].tier # session.runs[2].tier
  /\ session.input = <<" ", "h", "i", " ">>

\* The uncertainty scores a verification pass can compute from the outputs outs.
ScoresFrom(outs) ==
  {DivInt(Plus(IF cs.parsed THEN OrNum(cs.uncertainty, Num(1, 2)) ELSE Num(1, 2),
               Minus(Whole(1), DivInt(SumConfidence(outs), Len(outs)))),
          2) : cs \in ConsistencyResponses}

\* C33: the branch outputs change only in a step that starts a verification pass
\* on them, and when the synthesizer is invoked the verification result is one
\* computed from the current branch outputs and the run has made
\* 1 + recurrenceCount verification passes.
C33_SynthesizesVerifiedOutputs ==
  [][/\ branchOutputs' # branchOutputs => stages' = Append(stages, "Verification")
     /\ stages' = Append(stages, "Synthesizer")
          => /\ branchOutputs' = branchOutputs
             /\ verification' = verification
             /\ recurrenceCount' = recurrenceCount
             /\ verification.uncertaintyScore \in ScoresFrom(branchOutputs)
             /\ VerificationPasses(stages) = 1 + recurrenceCount]_vars

\* The synthesizer is invoked after a REFINE pass.
C33_Witness ==
  /\ pc = "final"
  /\ recurrenceCount >= 1
  /\ stages[Len(stages)] = "Synthesizer"

\* The requested names with the names outside the registry removed.
KnownRequested ==
  SelectSeq(budget.branches.a,
            LAMBDA n : n \in {"logic", "pattern", "world", "code", "adversarial"})

\* C34: Stage B fixes the names of the branch outputs, the requested names in
\* their order with the unknown names removed, and no later step adds, removes or
\* reorders a name.
C34_NamesFixedByStageB ==
  [][/\ (pc = "stageB" /\ pc' \notin {"stageB", "threw"})
          => NamesOf(branchOutputs') = KnownRequested
     /\ pc \notin {"start", "stage0", "stageA", "stageB"}
          => NamesOf(branchOutputs') = NamesOf(branchOutputs)]_vars

\* The number of REFINE passes in a stage sequence: the verification passes after
\* the first.
RefinePasses(s) == VerificationPasses(s) - 1

\* The stop condition is false and at least one branch is weak.
MustRefine ==
  /\ verification # NoVerification
  /\ ~Confident
  /\ \E i \in DOMAIN branchOutputs : WeakAsSpecified(branchOutputs[i], verification)

\* C35: as long as the stop condition is false and a branch is weak the controller
\* starts a REFINE pass that re-invokes every weak branch, until recurrenceCount
\* has reached allowedDepth; then the synthesizer runs, after exactly allowedDepth
\* REFINE passes and allowedDepth + 1 verification passes.
C35_RefinesToDepth ==
  [][/\ (pc = "loop" /\ MustRefine)
          => IF recurrenceCount < budget.allowedDepth.n
                /\ budget.allowedDepth.t = "num" /\ budget.allowedDepth.d = 1
             THEN pc' = "stageD_instr"
             ELSE /\ SynthesizerNext
                  /\ budget.allowedDepth = [t |-> "num", n |-> recurrenceCount, d |-> 1]
                  /\ RefinePasses(stages) = recurrenceCount
                  /\ VerificationPasses(stages) = recurrenceCount + 1
     /\ (pc = "stageD_instr" /\ pc' = "stageD")
          => \A i \in DOMAIN branchOutputs :
               WeakAsSpecified(branchOutputs[i], verification)
                 => slots'[i].st = "wait"]_vars

====
